---- MODULE Spec2Model ----
(***************************************************************************)
(* Model of the authenticated-request pipeline of py-guacamole-api.        *)
(*                                                                         *)
(*  - guac_api/auth.py: the lock-guarded token provider                    *)
(*    (SyncTokenProvider / AsyncTokenProvider), the expiry check           *)
(*    has_token_expired and the httpx auth flow GuacamoleSession.auth_flow *)
(*  - guac_api/request_spec.py, guac_api/core/request_spec.py: the         *)
(*    SessionToken store (set_token / touch / get_token / _has_expired)    *)
(*                                                                         *)
(*  - guac_client/retry.py: RetryPolicy, should_retry_request and the     *)
(*    retry loop send_with_retries_sync / send_with_retries_async          *)
(*                                                                         *)
(*  - guac_api/auth.py: _check_token_response, delete_token, close        *)
(*  - guac_client/errors.py: get_error_by_status, raise_for_response;      *)
(*    guac_client/core.py: decode_response; ApiRouter.get_response_json    *)
(*                                                                         *)
(* Time is the value of time.time(), counted in whole minutes; a duration  *)
(* (timedelta) is a number of minutes.  A token value is the serial number *)
(* of the authentication exchange that issued it; 0 stands for None.       *)
(***************************************************************************)
EXTENDS Integers, Sequences, FiniteSets, TLC

\* ------------------------------------------------------------------ bounds
NumCallers == 2          \* threads / coroutines calling get_token
NumFlows == 1            \* requests going through auth_flow at once
MaxTime == 2             \* the clock runs over 0..MaxTime
MaxIdle == 2             \* largest configured idle_timeout explored
MaxTokens == 2           \* distinct token strings handed to set_token
MaxAttempts == 3         \* largest RetryPolicy.max_attempts explored
MaxCalls == 2            \* get_token calls one caller makes in a row
LowMaxDelay == 3         \* a max_delay the backoff reaches on the 2nd attempt

\* ------------------------------------------------------- program constants
DefaultIdleTimeout == 5  \* timedelta(minutes=5)
DefaultMaxAttempts == 3  \* RetryPolicy.max_attempts
\* delays of the retry policy are counted in eighths of a second
DefaultBaseDelay == 2    \* RetryPolicy.base_delay = 0.25
DefaultMaxDelay == 64    \* RetryPolicy.max_delay = 8.0
DefaultBackoffMultiplier == 2   \* RetryPolicy.backoff_multiplier = 2.0
DefaultJitterLo == 0     \* RetryPolicy.jitter[0] = 0.0
DefaultJitterHi == 2     \* RetryPolicy.jitter[1] = 0.25

Callers == 1..NumCallers
Flows == 1..NumFlows
OneCaller == {1}                    \* a single thread using the provider
IdleTimeouts == (-1)..MaxIdle       \* configured GuacamoleConfig.idle_timeout
Statuses == {200, 401, 503}         \* response status codes of the API server
AuthStatuses == {200, 201, 302, 403, 500}  \* statuses of the token endpoint

\* GuacToken(token, created_at); NoToken stands for `_token = None`
GuacToken(tok, at) == [token |-> tok, created_at |-> at]
NoToken == [token |-> 0, created_at |-> 0]

VARIABLES
    now,            \* time.time()
    idle_cfg,       \* config.idle_timeout handed to from_config
    idle_timeout,   \* _TokenProvider._idle_timeout
    token,          \* _TokenProvider._token
    lock,           \* _lock: 0 when free, else the caller holding it
    pc,             \* pc[c]: position of caller c in auth_flow / get_token
    phase,          \* phase[c]: number of get_token calls caller c has started
    exch,           \* exch[c]: exchanges started by c's current get_token call
    chk,            \* chk[c]: token found valid at c's check (0: none / stale)
    mine,           \* mine[c]: token issued to c's own exchange in this call
    req,            \* req[c]: serial of the exchange in flight when c called
    got,            \* got[c]: values returned by c's get_token calls
    params,         \* params[c]: `token` query parameters on c's request URL
    sends,          \* sends[c]: number of times c's request went on the wire
    resp,           \* resp[c]: status of the last response c received (0: none)
    authLog,        \* finished exchanges in order: TRUE ok, FALSE AuthError
    first_at,       \* created_at of the first token issued (-1: none yet)
    auth_replies,   \* the responses the token endpoint may give to the POST
    auth_reply,     \* the response the last finished exchange received
    auth_exc,       \* the exception the last failed exchange raised
    st_idle_cfg,    \* idle_timeout handed to SessionToken.__init__
    st_idle,        \* SessionToken.idle_timeout
    st_token,       \* SessionToken._token (0 for None)
    st_created_at,  \* SessionToken._created_at (-1 until first set)
    st_last,        \* the last SessionToken operation, its time, what it saw
    rt_policy,      \* the RetryPolicy handed to send_with_retries_*
    rt_method,      \* request.method of the request being sent
    rt_pc,          \* position of the retry loop
    rt_attempt,     \* local `attempt`
    rt_sends,       \* number of client.send calls made so far
    rt_delays,      \* number of sleep(delay) calls started so far
    rt_last,        \* local `result`: what the last finished send gave
    rt_last_exc,    \* local `last_exception` (NoResult for None)
    rt_outcome,     \* what the call gave its caller (NoResult while running)
    rt_hdr,         \* Retry-After header of the last response ("missing")
    rt_jitter,      \* random.uniform(*policy.jitter) of the last delay
    rt_delay,       \* the last value handed to sleep (-1: none yet)
    rs_response,    \* the httpx.Response handed to the classifier / decoder
    rs_result,      \* what the last call on rs_response returned or raised
    closed,         \* the provider's http client has been closed
    del_sent,       \* tokens for which a DELETE request has been sent
    del_outcome,    \* what the last DELETE request gave (NoResult: none yet)
    del_result,     \* what the last delete_token call returned or raised
    cd_call,        \* arguments of a calculate_delay call
    cd_out,         \* what that call drew and returned
    holder,         \* _GuacamoleAPI: _client, _auth_client, clients closed
    h_last,         \* the last call on the holder and what it gave
    spec,           \* the RequestSpec handed to build_request
    spec0,          \* that RequestSpec as it was constructed
    request         \* the httpx.Request the last build_request call built

avars == <<auth_replies, auth_reply, auth_exc>>
pvars == <<idle_cfg, idle_timeout, token, lock, pc, phase, exch, chk, mine,
           req, got, params, sends, resp, authLog, first_at, avars>>
svars == <<st_idle_cfg, st_idle, st_token, st_created_at, st_last>>
rdvars == <<rt_hdr, rt_jitter, rt_delay>>
rvars == <<rt_policy, rt_method, rt_pc, rt_attempt, rt_sends, rt_delays,
           rt_last, rt_last_exc, rt_outcome, rdvars>>
rsvars == <<rs_response, rs_result>>
lvars == <<closed, del_sent, del_outcome, del_result>>
cdvars == <<cd_call, cd_out>>
hvars == <<holder, h_last>>
bvars == <<spec, spec0, request>>
cvars == <<hvars, bvars>>
ovars == <<rvars, rsvars, lvars, cdvars, cvars>>
vars == <<now, pvars, svars, ovars>>

\* ------------------------------------------------------------ auth.py
\* `config.idle_timeout or timedelta(minutes=5)` then `.total_seconds()`:
\* a zero timedelta is falsy and is replaced by the default.
IdleFromConfig(cfg) == IF cfg = 0 THEN DefaultIdleTimeout ELSE cfg

\* has_token_expired(token, idle_timeout) evaluated at time t
has_token_expired(tok, idle, t) ==
    IF tok.token = 0 THEN TRUE
    ELSE LET elapsed == t - tok.created_at IN elapsed >= idle

\* _TokenProvider.expired
expired == has_token_expired(token, idle_timeout, now)

\* serial number of the exchange that is in flight (0 when none is)
Procs == DOMAIN pc
Exchanging == {c \in Procs : pc[c] = "exchange"}
AuthStarted == Len(authLog) + Cardinality(Exchanging)

\* the response to POST {url}/api/tokens: its status code and what
\* data.get("authToken") finds in its JSON body
AuthTokenFields == {"absent", "empty", "present"}
Reply(status, field) == [status |-> status, authToken |-> field]
NoReply == Reply(0, "absent")
AuthReplies == {Reply(st, f) : st \in AuthStatuses, f \in AuthTokenFields}
\* a server that either issues a token or rejects the credentials
PlainReplies == {Reply(200, "present"), Reply(403, "absent")}

\* AuthError(status=..., detail=..., response=...)
AuthError(r) == [cls |-> "AuthError", status |-> r.status, response |-> r]
NoExc == [cls |-> "none", status |-> 0, response |-> NoReply]

\* _AuthClient._check_token_response: TRUE when the token is returned,
\* FALSE when AuthError is raised.  raise_for_status() raises
\* HTTPStatusError for every status that is not 2xx; `not token` holds
\* for a missing key (None) and for an empty string.
check_token_response_MissingOnly(r) ==
    /\ r.status \in 200..299
    /\ r.authToken # "absent"

check_token_response(r) ==
    /\ r.status \in 200..299
    /\ r.authToken \notin {"absent", "empty"}

InitProvider(procs, cfgs, replies) ==
    /\ auth_replies = replies
    /\ auth_reply = NoReply
    /\ auth_exc = NoExc
    /\ idle_cfg \in cfgs
    /\ idle_timeout = IdleFromConfig(idle_cfg)
    /\ token = NoToken
    /\ lock = 0
    /\ pc = [c \in procs |-> "idle"]
    /\ phase = [c \in procs |-> 0]
    /\ exch = [c \in procs |-> 0]
    /\ chk = [c \in procs |-> 0]
    /\ mine = [c \in procs |-> 0]
    /\ req = [c \in procs |-> 0]
    /\ got = [c \in procs |-> <<>>]
    /\ params = [c \in procs |-> <<>>]
    /\ sends = [c \in procs |-> 0]
    /\ resp = [c \in procs |-> 0]
    /\ authLog = <<>>
    /\ first_at = -1

\* entry of get_token: the caller reaches `with self._lock`
CallGetToken(c) ==
    /\ phase' = [phase EXCEPT ![c] = @ + 1]
    /\ exch' = [exch EXCEPT ![c] = 0]
    /\ chk' = [chk EXCEPT ![c] = 0]
    /\ mine' = [mine EXCEPT ![c] = 0]
    /\ req' = [req EXCEPT ![c] = IF Exchanging # {} THEN AuthStarted ELSE 0]

\* a thread or coroutine calls provider.get_token() directly
GetTokenStart(c) ==
    /\ pc[c] = "idle"
    /\ pc' = [pc EXCEPT ![c] = "acquire"]
    /\ CallGetToken(c)
    /\ UNCHANGED <<now, idle_cfg, idle_timeout, token, lock, got, params,
                   sends, resp, authLog, first_at, svars, ovars, avars>>

\* the caller's previous get_token call has returned or raised, and it
\* calls provider.get_token() once more
GetTokenAgain(c) ==
    /\ pc[c] \in {"done", "raised"}
    /\ phase[c] < MaxCalls
    /\ pc' = [pc EXCEPT ![c] = "acquire"]
    /\ CallGetToken(c)
    /\ UNCHANGED <<now, idle_cfg, idle_timeout, token, lock, got, params,
                   sends, resp, authLog, first_at, svars, ovars, avars>>

\* return self._token.token (after the lock is released)
GetTokenReturn(c) ==
    /\ pc[c] = "return"
    /\ got' = [got EXCEPT ![c] = Append(@, token.token)]
    /\ pc' = [pc EXCEPT ![c] = "done"]
    /\ UNCHANGED <<now, idle_cfg, idle_timeout, token, lock, phase, exch, chk,
                   mine, req, params, sends, resp, authLog, first_at, svars, ovars, avars>>

\* auth_flow, first statement: token = self.sync_provider.get_token()
FlowStart(c) ==
    /\ pc[c] = "idle"
    /\ pc' = [pc EXCEPT ![c] = "acquire"]
    /\ CallGetToken(c)
    /\ UNCHANGED <<now, idle_cfg, idle_timeout, token, lock, got, params,
                   sends, resp, authLog, first_at, svars, ovars, avars>>

\* with self._lock:  if not self._token or self.expired:  -- false branch;
\* the with block ends and the lock is released again
AcquireValid(c) ==
    /\ pc[c] = "acquire"
    /\ lock = 0
    /\ ~(token.token = 0 \/ expired)
    /\ chk' = [chk EXCEPT ![c] = token.token]
    /\ pc' = [pc EXCEPT ![c] = "return"]
    /\ UNCHANGED <<now, idle_cfg, idle_timeout, token, lock, phase, exch,
                   mine, req, got, params, sends, resp, authLog, first_at, svars, ovars, avars>>

\* with self._lock:  if not self._token or self.expired:  -- true branch;
\* the lock stays held while self._client.get_token() posts the credentials
AcquireRefreshNoLock(c) ==
    /\ pc[c] = "acquire"
    /\ ~closed
    /\ token.token = 0 \/ expired
    /\ lock' = c
    /\ exch' = [exch EXCEPT ![c] = @ + 1]
    /\ pc' = [pc EXCEPT ![c] = "exchange"]
    /\ UNCHANGED <<now, idle_cfg, idle_timeout, token, phase, chk,
                   mine, req, got, params, sends, resp, authLog, first_at, svars, ovars, avars>>

AcquireRefreshUnlocked(c) ==
    /\ pc[c] = "acquire"
    /\ ~closed
    /\ lock = 0
    /\ token.token = 0 \/ expired
    /\ exch' = [exch EXCEPT ![c] = @ + 1]
    /\ pc' = [pc EXCEPT ![c] = "exchange"]
    /\ UNCHANGED <<now, idle_cfg, idle_timeout, token, lock, phase, chk,
                   mine, req, got, params, sends, resp, authLog, first_at, svars, ovars, avars>>

AcquireRefresh(c) ==
    /\ pc[c] = "acquire"
    /\ ~closed
    /\ lock = 0
    /\ token.token = 0 \/ expired
    /\ lock' = c
    /\ exch' = [exch EXCEPT ![c] = @ + 1]
    /\ pc' = [pc EXCEPT ![c] = "exchange"]
    /\ UNCHANGED <<now, idle_cfg, idle_timeout, token, phase, chk,
                   mine, req, got, params, sends, resp, authLog, first_at, svars, ovars, avars>>

\* SyncAuthClient.get_token returns GuacToken(token, time.time());
\* self._token = <that>; the with block ends and the lock is released
ExchangeOkNoStore(c) ==
    /\ pc[c] = "exchange"
    /\ \E r \in auth_replies : check_token_response(r) /\ auth_reply' = r
    /\ LET serial == Len(authLog) + 1 IN
         /\ mine' = [mine EXCEPT ![c] = serial]
         /\ authLog' = Append(authLog, TRUE)
         /\ first_at' = IF first_at < 0 THEN now ELSE first_at
    /\ lock' = 0
    /\ pc' = [pc EXCEPT ![c] = "return"]
    /\ UNCHANGED <<now, idle_cfg, idle_timeout, token, phase, exch, chk, req,
                   got, params, sends, resp, svars, ovars, auth_replies,
                   auth_exc>>

ExchangeOk(c) ==
    /\ pc[c] = "exchange"
    /\ \E r \in auth_replies : check_token_response(r) /\ auth_reply' = r
    /\ LET serial == Len(authLog) + 1 IN
         /\ token' = GuacToken(serial, now)
         /\ mine' = [mine EXCEPT ![c] = serial]
         /\ authLog' = Append(authLog, TRUE)
         /\ first_at' = IF first_at < 0 THEN now ELSE first_at
    /\ lock' = 0
    /\ pc' = [pc EXCEPT ![c] = "return"]
    /\ UNCHANGED <<now, idle_cfg, idle_timeout, phase, exch, chk, req,
                   got, params, sends, resp, svars, ovars, auth_replies,
                   auth_exc>>

\* _check_token_response raises AuthError: the with block is left by the
\* exception, the lock is released, _token is not assigned
ExchangeFailKeepsLock(c) ==
    /\ pc[c] = "exchange"
    /\ \E r \in auth_replies :
         /\ ~check_token_response(r)
         /\ auth_reply' = r
         /\ auth_exc' = AuthError(r)
    /\ authLog' = Append(authLog, FALSE)
    /\ pc' = [pc EXCEPT ![c] = "raised"]
    /\ UNCHANGED <<now, idle_cfg, idle_timeout, token, lock, phase, exch, chk,
                   mine, req, got, params, sends, resp, first_at, svars, ovars,
                   auth_replies>>

ExchangeFail(c) ==
    /\ pc[c] = "exchange"
    /\ \E r \in auth_replies :
         /\ ~check_token_response(r)
         /\ auth_reply' = r
         /\ auth_exc' = AuthError(r)
    /\ authLog' = Append(authLog, FALSE)
    /\ lock' = 0
    /\ pc' = [pc EXCEPT ![c] = "raised"]
    /\ UNCHANGED <<now, idle_cfg, idle_timeout, token, phase, exch, chk, mine,
                   req, got, params, sends, resp, first_at, svars, ovars,
                   auth_replies>>

\* return self._token.token (after the lock is released);
\* set_token_param: request.url = request.url.copy_add_param("token", token)
Return(c) ==
    /\ pc[c] = "return"
    /\ got' = [got EXCEPT ![c] = Append(@, token.token)]
    /\ params' = [params EXCEPT ![c] = Append(@, token.token)]
    /\ pc' = [pc EXCEPT ![c] = IF phase[c] = 1 THEN "send1" ELSE "send2"]
    /\ UNCHANGED <<now, idle_cfg, idle_timeout, token, lock, phase, exch, chk,
                   mine, req, sends, resp, authLog, first_at, svars, ovars, avars>>

\* response = yield request; if response.status_code == 401: get_token()
Send1(c) ==
    /\ pc[c] = "send1"
    /\ \E status \in Statuses :
         /\ resp' = [resp EXCEPT ![c] = status]
         /\ sends' = [sends EXCEPT ![c] = @ + 1]
         /\ IF status = 401
              THEN /\ pc' = [pc EXCEPT ![c] = "acquire"]
                   /\ CallGetToken(c)
              ELSE /\ pc' = [pc EXCEPT ![c] = "done"]
                   /\ UNCHANGED <<phase, exch, chk, mine, req>>
    /\ UNCHANGED <<now, idle_cfg, idle_timeout, token, lock, got, params,
                   authLog, first_at, svars, ovars, avars>>

\* second `yield request`: the generator ends whatever the response is
Send2Loop(c) ==
    /\ pc[c] = "send2"
    /\ \E status \in Statuses :
         /\ resp' = [resp EXCEPT ![c] = status]
         /\ sends' = [sends EXCEPT ![c] = @ + 1]
         /\ IF status = 401
              THEN /\ pc' = [pc EXCEPT ![c] = "acquire"]
                   /\ CallGetToken(c)
              ELSE /\ pc' = [pc EXCEPT ![c] = "done"]
                   /\ UNCHANGED <<phase, exch, chk, mine, req>>
    /\ UNCHANGED <<now, idle_cfg, idle_timeout, token, lock, got, params,
                   authLog, first_at, svars, ovars, avars>>

Send2(c) ==
    /\ pc[c] = "send2"
    /\ \E status \in Statuses :
         /\ resp' = [resp EXCEPT ![c] = status]
         /\ sends' = [sends EXCEPT ![c] = @ + 1]
    /\ pc' = [pc EXCEPT ![c] = "done"]
    /\ UNCHANGED <<now, idle_cfg, idle_timeout, token, lock, phase, exch, chk,
                   mine, req, got, params, authLog, first_at, svars, ovars, avars>>

\* the wall clock advances
Tick ==
    /\ now < MaxTime
    /\ now' = now + 1
    /\ UNCHANGED <<pvars, svars, ovars>>

\* ------------------------------------------------- request_spec.py
\* (guac_api/core/request_spec.py holds the same class, line for line)
SessionTokens == 1..MaxTokens

\* SessionToken.__init__
InitSession(cfgs) ==
    /\ st_idle_cfg \in cfgs
    /\ st_idle = IdleFromConfig(st_idle_cfg)
    /\ st_token = 0
    /\ st_created_at = -1
    /\ st_last = [op |-> "init", time |-> 0, valid |-> FALSE, tok |-> 0,
                  at |-> -1, ret |-> 0, stale |-> 0]

\* SessionToken._has_expired at time t
SessionExpiredReversed(created_at, idle, t) ==
    IF created_at < 0 THEN TRUE
    ELSE IF idle <= 0 THEN FALSE
    ELSE (t - created_at) < idle

SessionExpired(created_at, idle, t) ==
    IF created_at < 0 THEN TRUE
    ELSE IF idle <= 0 THEN FALSE
    ELSE (t - created_at) > idle

has_expired == SessionExpired(st_created_at, st_idle, now)

\* what the operation about to run finds in the store
Seen(opname) ==
    [op |-> opname, time |-> now, valid |-> (st_token # 0 /\ ~has_expired),
     tok |-> st_token, at |-> st_created_at, ret |-> 0,
     stale |-> st_last.stale]

\* SessionToken.set_token
set_token(tok) ==
    /\ st_token' = tok
    /\ st_created_at' = now
    /\ st_last' = [Seen("set_token") EXCEPT !.stale = 0]
    /\ UNCHANGED <<now, pvars, ovars, st_idle_cfg, st_idle>>

\* SessionToken.touch
touch ==
    /\ st_created_at' = now
    /\ st_last' = [Seen("touch") EXCEPT
                     !.stale = IF st_token # 0 /\ has_expired
                                 THEN st_token ELSE @]
    /\ UNCHANGED <<now, pvars, ovars, st_idle_cfg, st_idle, st_token>>

\* SessionToken.get_token
get_token ==
    /\ st_token' = IF has_expired THEN 0 ELSE st_token
    /\ st_last' = [Seen("get_token") EXCEPT !.ret = st_token']
    /\ UNCHANGED <<now, pvars, ovars, st_idle_cfg, st_idle, st_created_at>>

\* ------------------------------------------------- guac_client/retry.py
\* RetryPolicy field defaults
DefaultRetryMethods == {"GET", "HEAD", "OPTIONS", "TRACE", "PUT", "DELETE"}
DefaultRetryStatuses == {429, 500, 502, 503, 504, 408}
DefaultRetryExceptions ==
    {"ConnectError", "ReadTimeout", "ConnectTimeout", "RemoteProtocolError"}

\* RetryPolicy(); should_retry_hook is "none" for None, else names what the
\* hook does on every call: return True, return False, or raise
RetryPolicy(max, methods, statuses, excs, hook) ==
    [max_attempts |-> max, retry_methods |-> methods,
     retry_statuses |-> statuses, retry_on_exceptions |-> excs,
     respect_retry_after |-> TRUE, base_delay |-> DefaultBaseDelay,
     max_delay |-> DefaultMaxDelay,
     backoff_multiplier |-> DefaultBackoffMultiplier,
     jitter |-> <<DefaultJitterLo, DefaultJitterHi>>,
     should_retry_hook |-> hook]
\* dataclasses.replace(policy, respect_retry_after=..., base_delay=..., ...)
WithDelays(policy, respect, base, max, mult, jitter) ==
    [policy EXCEPT !.respect_retry_after = respect, !.base_delay = base,
                   !.max_delay = max, !.backoff_multiplier = mult,
                   !.jitter = jitter]
RetryPolicyDefault ==
    RetryPolicy(DefaultMaxAttempts, DefaultRetryMethods, DefaultRetryStatuses,
                DefaultRetryExceptions, "none")

Hooks == {"none", "true", "false", "raises"}
RetryChoices ==
    {RetryPolicy(max, methods, statuses, excs, hook) :
        max \in 0..MaxAttempts,
        methods \in {DefaultRetryMethods, {}},
        statuses \in {DefaultRetryStatuses, {}},
        excs \in {DefaultRetryExceptions, {}},
        hook \in Hooks}
RetryPolicies ==
    {[p EXCEPT !.respect_retry_after = respect, !.max_delay = max] :
        p \in RetryChoices, respect \in BOOLEAN,
        max \in {DefaultMaxDelay, LowMaxDelay}}

\* request.method as the caller wrote it, and str.upper() of it
Methods == {"GET", "get", "POST"}
Upper(m) == IF m = "get" THEN "GET" ELSE m

\* what one client.send can give: a response (its status code) or a raised
\* exception (its class)
SendStatuses == {200, 404, 408, 429, 503}
SendExceptions == {"ConnectError", "ReadTimeout", "ValueError"}
Response(status) == [kind |-> "response", val |-> status]
Raised(cls) == [kind |-> "exception", val |-> cls]
NoResult == [kind |-> "none", val |-> 0]
SendResults ==
    {Response(s) : s \in SendStatuses} \cup {Raised(e) : e \in SendExceptions}

\* the Retry-After header of a response: "missing" when there is none
RetryAfterHeaders == {"missing", "", "abc", "-1", "2", "100"}
\* float(header): whether it parses, and the number of seconds in eighths
FloatParses(h) == h \in {"-1", "2", "100"}
FloatOf(h) == CASE h = "-1" -> -8 [] h = "2" -> 16 [] h = "100" -> 800
Max(a, b) == IF a >= b THEN a ELSE b
Min(a, b) == IF a <= b THEN a ELSE b
RECURSIVE Pow(_, _)
Pow(b, e) == IF e <= 0 THEN 1 ELSE b * Pow(b, e - 1)

\* an optional duration: Seconds(d), or NoDuration for None
Seconds(d) == [some |-> TRUE, val |-> d]
NoDuration == [some |-> FALSE, val |-> 0]

\* extract_retry_after_seconds(response), by the header of the response
extract_retry_after_seconds_EmptyIsZero(h) ==
    IF h = "missing" THEN NoDuration
    ELSE IF h = "" THEN Seconds(0)
    ELSE IF FloatParses(h) THEN Seconds(Max(0, FloatOf(h)))
    ELSE NoDuration

extract_retry_after_seconds_NoClamp(h) ==
    IF h \in {"missing", ""} THEN NoDuration
    ELSE IF FloatParses(h) THEN Seconds(FloatOf(h))
    ELSE NoDuration

extract_retry_after_seconds(h) ==
    IF h \in {"missing", ""} THEN NoDuration
    ELSE IF FloatParses(h) THEN Seconds(Max(0, FloatOf(h)))
    ELSE NoDuration

\* the values random.uniform(*policy.jitter) can give: lo + (hi - lo) * r
\* with 0 <= r < 1 (the rounding of that sum is not modelled)
JitterDraws(policy) ==
    LET lo == policy.jitter[1]
        hi == policy.jitter[2]
    IN  IF lo < hi THEN lo..(hi - 1)
        ELSE IF lo = hi THEN {lo}
        ELSE (hi + 1)..lo

\* calculate_delay(attempt, policy, response) with the jitter drawn;
\* has_response is `response is not None`, header its Retry-After header
calculate_delay_JitterAfterCap(attempt, policy, has_response, header, jitter) ==
    LET retry_after_delay == extract_retry_after_seconds(header)
        base_delay ==
            policy.base_delay * Pow(policy.backoff_multiplier, attempt - 1)
        delay_with_cap == Min(base_delay, policy.max_delay)
    IN  IF has_response /\ policy.respect_retry_after /\ retry_after_delay.some
          THEN Min(policy.max_delay, retry_after_delay.val) + jitter
          ELSE delay_with_cap + jitter

calculate_delay_AttemptExponent(attempt, policy, has_response, header, jitter) ==
    LET retry_after_delay == extract_retry_after_seconds(header)
        base_delay ==
            policy.base_delay * Pow(policy.backoff_multiplier, attempt)
        delay_with_cap == Min(base_delay, policy.max_delay)
    IN  IF has_response /\ policy.respect_retry_after /\ retry_after_delay.some
          THEN Min(policy.max_delay, retry_after_delay.val + jitter)
          ELSE delay_with_cap + jitter

calculate_delay(attempt, policy, has_response, header, jitter) ==
    LET retry_after_delay == extract_retry_after_seconds(header)
        base_delay ==
            policy.base_delay * Pow(policy.backoff_multiplier, attempt - 1)
        delay_with_cap == Min(base_delay, policy.max_delay)
    IN  IF has_response /\ policy.respect_retry_after /\ retry_after_delay.some
          THEN Min(policy.max_delay, retry_after_delay.val + jitter)
          ELSE delay_with_cap + jitter

\* the Retry-After headers explored inside the retry loop
LoopHeaders(result) ==
    IF result.kind = "response" THEN {"missing", "2"} ELSE {"missing"}

\* should_retry_request(request, attempt, result, policy)
should_retry_request_AnyMethod(method, result, policy) ==
    LET by_result ==
            IF result.kind = "exception"
              THEN result.val \in policy.retry_on_exceptions
              ELSE /\ result.val \in policy.retry_statuses
                   /\ Upper(method) \in policy.retry_methods
    IN  CASE policy.should_retry_hook = "true" -> TRUE
          [] policy.should_retry_hook = "false" -> FALSE
          [] OTHER -> by_result

should_retry_request_HookVeto(method, result, policy) ==
    LET by_result ==
            IF result.kind = "exception"
              THEN result.val \in policy.retry_on_exceptions
              ELSE result.val \in policy.retry_statuses
        by_method ==
            IF by_result /\ Upper(method) \notin policy.retry_methods
              THEN FALSE ELSE by_result
    IN  CASE policy.should_retry_hook = "true" -> by_method
          [] policy.should_retry_hook = "false" -> FALSE
          [] OTHER -> by_method

should_retry_request_CaseSensitive(method, result, policy) ==
    LET by_result ==
            IF result.kind = "exception"
              THEN result.val \in policy.retry_on_exceptions
              ELSE result.val \in policy.retry_statuses
        by_method ==
            IF by_result /\ method \notin policy.retry_methods
              THEN FALSE ELSE by_result
    IN  CASE policy.should_retry_hook = "true" -> TRUE
          [] policy.should_retry_hook = "false" -> FALSE
          [] OTHER -> by_method

should_retry_request(method, result, policy) ==
    LET by_result ==
            IF result.kind = "exception"
              THEN result.val \in policy.retry_on_exceptions
              ELSE result.val \in policy.retry_statuses
        by_method ==
            IF by_result /\ Upper(method) \notin policy.retry_methods
              THEN FALSE ELSE by_result
    IN  CASE policy.should_retry_hook = "true" -> TRUE
          [] policy.should_retry_hook = "false" -> FALSE
          [] OTHER -> by_method

InitRetryLoop(policies, methods) ==
    /\ rt_policy \in policies
    /\ rt_method \in methods
    /\ rt_pc = "idle"
    /\ rt_attempt = 0
    /\ rt_sends = 0
    /\ rt_delays = 0
    /\ rt_last = NoResult
    /\ rt_last_exc = NoResult
    /\ rt_outcome = NoResult
    /\ rt_hdr = "missing"
    /\ rt_jitter = 0
    /\ rt_delay = -1

\* attempt = 1; last_exception = None; while attempt <= policy.max_attempts:
\* the first client.send is started, or the loop body never runs and
\* `assert last_exception is not None` fails (AssertionError); under
\* `python -O` the assert is compiled away and `raise None` is a TypeError
RetryCall ==
    /\ rt_pc = "idle"
    /\ rt_attempt' = 1
    /\ IF 1 <= rt_policy.max_attempts
         THEN /\ rt_pc' = "sending"
              /\ rt_sends' = rt_sends + 1
              /\ UNCHANGED rt_outcome
         ELSE /\ rt_pc' = "raised"
              /\ \E e \in {"AssertionError", "TypeError"} :
                   rt_outcome' = Raised(e)
              /\ UNCHANGED rt_sends
    /\ UNCHANGED <<now, pvars, svars, rsvars, lvars, cdvars, cvars, rt_policy, rt_method,
                   rt_delays, rt_last, rt_last_exc, rdvars>>

\* client.send returns a response or raises an Exception; then
\* (see SendDone)
SendDoneWrapped ==
    /\ rt_pc = "sending"
    /\ \E result \in SendResults :
       \E header \in LoopHeaders(result), jitter \in JitterDraws(rt_policy) :
         /\ rt_last' = result
         /\ rt_hdr' = header
         /\ rt_last_exc' = IF result.kind = "exception"
                             THEN result ELSE rt_last_exc
         /\ IF /\ rt_attempt < rt_policy.max_attempts
               /\ should_retry_request(rt_method, result, rt_policy)
              THEN /\ rt_pc' = "sleeping"
                   /\ rt_delays' = rt_delays + 1
                   /\ rt_jitter' = jitter
                   /\ rt_delay' = calculate_delay(rt_attempt, rt_policy,
                                                  result.kind = "response",
                                                  header, jitter)
                   /\ UNCHANGED rt_outcome
              ELSE /\ rt_pc' = IF result.kind = "exception"
                                 THEN "raised" ELSE "returned"
                   /\ rt_outcome' = IF result.kind = "exception"
                                      THEN Raised("TransportError") ELSE result
                   /\ UNCHANGED <<rt_delays, rt_jitter, rt_delay>>
    /\ UNCHANGED <<now, pvars, svars, rsvars, lvars, cdvars, cvars, rt_policy, rt_method,
                   rt_attempt, rt_sends>>

\* client.send returns a response or raises an Exception; then
\* `if attempt < policy.max_attempts and should_retry_request(...)`:
\* sleep(delay) is started, else the result is raised or returned
SendDone ==
    /\ rt_pc = "sending"
    /\ \E result \in SendResults :
       \E header \in LoopHeaders(result), jitter \in JitterDraws(rt_policy) :
         /\ rt_last' = result
         /\ rt_hdr' = header
         /\ rt_last_exc' = IF result.kind = "exception"
                             THEN result ELSE rt_last_exc
         /\ IF /\ rt_attempt < rt_policy.max_attempts
               /\ should_retry_request(rt_method, result, rt_policy)
              THEN /\ rt_pc' = "sleeping"
                   /\ rt_delays' = rt_delays + 1
                   /\ rt_jitter' = jitter
                   /\ rt_delay' = calculate_delay(rt_attempt, rt_policy,
                                                  result.kind = "response",
                                                  header, jitter)
                   /\ UNCHANGED rt_outcome
              ELSE /\ rt_pc' = IF result.kind = "exception"
                                 THEN "raised" ELSE "returned"
                   /\ rt_outcome' = result
                   /\ UNCHANGED <<rt_delays, rt_jitter, rt_delay>>
    /\ UNCHANGED <<now, pvars, svars, rsvars, lvars, cdvars, cvars, rt_policy, rt_method,
                   rt_attempt, rt_sends>>

\* sleep(delay) returns (see BackoffDone)
BackoffDoneNoIncrement ==
    /\ rt_pc = "sleeping"
    /\ rt_pc' = "sending"
    /\ rt_sends' = rt_sends + 1
    /\ UNCHANGED <<now, pvars, svars, rsvars, lvars, cdvars, cvars, rt_policy, rt_method,
                   rt_attempt, rt_delays, rt_last, rt_last_exc, rt_outcome,
                   rdvars>>

\* sleep(delay) returns; attempt += 1; continue; the while test holds
\* (attempt was below max_attempts) and the next client.send is started
BackoffDone ==
    /\ rt_pc = "sleeping"
    /\ rt_attempt' = rt_attempt + 1
    /\ rt_pc' = "sending"
    /\ rt_sends' = rt_sends + 1
    /\ UNCHANGED <<now, pvars, svars, rsvars, lvars, cdvars, cvars, rt_policy, rt_method,
                   rt_delays, rt_last, rt_last_exc, rt_outcome, rdvars>>

\* cancellation caught like a transport failure (see Cancel)
CancelCaught ==
    /\ rt_pc = "sending"
    /\ LET result == Raised("CancelledError") IN
         /\ rt_last' = result
         /\ rt_last_exc' = result
         /\ IF /\ rt_attempt < rt_policy.max_attempts
               /\ should_retry_request(rt_method, result, rt_policy)
              THEN /\ rt_pc' = "sleeping"
                   /\ rt_delays' = rt_delays + 1
                   /\ UNCHANGED rt_outcome
              ELSE /\ rt_pc' = "raised"
                   /\ rt_outcome' = result
                   /\ UNCHANGED rt_delays
    /\ UNCHANGED <<now, pvars, svars, rsvars, lvars, cdvars, cvars, rt_policy, rt_method,
                   rt_attempt, rt_sends, rdvars>>

\* the task running send_with_retries_async is cancelled while it awaits
\* client.send or asyncio.sleep: CancelledError is raised at the await; it
\* is a BaseException, so `except Exception` does not catch it and it
\* leaves the loop
Cancel ==
    /\ rt_pc \in {"sending", "sleeping"}
    /\ rt_pc' = "cancelled"
    /\ rt_outcome' = Raised("CancelledError")
    /\ UNCHANGED <<now, pvars, svars, rsvars, lvars, cdvars, cvars, rt_policy, rt_method,
                   rt_attempt, rt_sends, rt_delays, rt_last, rt_last_exc,
                   rdvars>>

\* ------------------------------- guac_client/errors.py, guac_client/core.py
\* an httpx.Response: status code, whether its content-type header
\* contains 'json', and whether its body parses as JSON
HttpStatuses == 100..599
HttpResponse(status, ctype, body) ==
    [status |-> status, ctype |-> ctype, body |-> body]
HttpResponses ==
    {HttpResponse(st, ct, b) :
        st \in HttpStatuses, ct \in {"json", "text"}, b \in {"json", "garbage"}}
PlainResponse == HttpResponse(200, "json", "json")

\* what a call gave: a returned value, or a raised exception with the
\* status and response it carries (0 / PlainResponse when it carries none)
Returns(opname, value) ==
    [op |-> opname, kind |-> "returned", cls |-> "none", status |-> 0,
     response |-> PlainResponse, value |-> value]
Raises(opname, cls, status, rsp) ==
    [op |-> opname, kind |-> "raised", cls |-> cls, status |-> status,
     response |-> rsp, value |-> "none"]
NotCalled == Returns("none", "none")

\* get_error_by_status(status)
get_error_by_status_Above500(status) ==
    CASE status = 401 -> "AuthError"
      [] status = 403 -> "PermissionError"
      [] status = 404 -> "NotFoundError"
      [] status \in {408, 429} -> "RateLimitError"
      [] 500 < status /\ status < 600 -> "ServerError"
      [] OTHER -> "HttpError"

get_error_by_status(status) ==
    CASE status = 401 -> "AuthError"
      [] status = 403 -> "PermissionError"
      [] status = 404 -> "NotFoundError"
      [] status \in {408, 429} -> "RateLimitError"
      [] 500 <= status /\ status < 600 -> "ServerError"
      [] OTHER -> "HttpError"

\* raise_for_response(resp), as the result of a call named opname
raise_for_response(opname, response) ==
    IF 200 <= response.status /\ response.status < 300
      THEN Returns(opname, "None")
      ELSE Raises(opname, get_error_by_status(response.status),
                  response.status, response)

\* resp.json(): the parsed body, or json.JSONDecodeError (a ValueError)
ResponseJson(opname, response) ==
    IF response.body = "json"
      THEN Returns(opname, "json")
      ELSE Raises(opname, "JSONDecodeError", 0, PlainResponse)

\* decode_response(resp)
decode_response(response) ==
    IF response.status = 204 THEN Returns("decode_response", "None")
    ELSE IF response.ctype = "json" THEN ResponseJson("decode_response", response)
    ELSE Returns("decode_response", "text")

\* ApiRouter.get_response_json(response)
get_response_json(response) ==
    LET checked == raise_for_response("get_response_json", response) IN
    IF checked.kind = "raised" THEN checked
    ELSE IF response.status = 204 THEN Returns("get_response_json", "{}")
    ELSE IF response.body = "json" THEN Returns("get_response_json", "json")
    ELSE Raises("get_response_json", "ValueError", 0, PlainResponse)

InitResponse(responses) ==
    /\ rs_response \in responses
    /\ rs_result = NotCalled

\* raise_for_response(rs_response) is called
RaiseForResponse ==
    /\ rs_result' = raise_for_response("raise_for_response", rs_response)
    /\ UNCHANGED <<now, pvars, svars, rvars, lvars, cdvars, cvars,
                   rs_response>>

\* decode_response(rs_response) is called
DecodeResponse ==
    /\ rs_result' = decode_response(rs_response)
    /\ UNCHANGED <<now, pvars, svars, rvars, lvars, cdvars, cvars,
                   rs_response>>

\* ApiRouter.get_response_json(rs_response) is called
GetResponseJson ==
    /\ rs_result' = get_response_json(rs_response)
    /\ UNCHANGED <<now, pvars, svars, rvars, lvars, cdvars, cvars,
                   rs_response>>

\* --------------------------------------- auth.py: delete_token and close
\* what the DELETE {url}/api/tokens/{token} request can give
DeleteStatuses == {204, 404, 500}
DeleteOutcomes ==
    {Response(st) : st \in DeleteStatuses}
        \cup {Raised(e) : e \in {"ConnectError", "ReadTimeout"}}

InitLifecycle ==
    /\ closed = FALSE
    /\ del_sent = {}
    /\ del_outcome = NoResult
    /\ del_result = NotCalled

\* with self._lock: if not self._token or self.expired: -- true branch on a
\* closed client: self._client.post raises RuntimeError before anything is
\* sent; the with block is left by the exception
AcquireRefreshClosed(c) ==
    /\ pc[c] = "acquire"
    /\ closed
    /\ lock = 0
    /\ token.token = 0 \/ expired
    /\ auth_exc' = [cls |-> "RuntimeError", status |-> 0, response |-> NoReply]
    /\ pc' = [pc EXCEPT ![c] = "raised"]
    /\ UNCHANGED <<now, idle_cfg, idle_timeout, token, lock, phase, exch, chk,
                   mine, req, got, params, sends, resp, authLog, first_at,
                   auth_replies, auth_reply, svars, ovars>>

\* SyncAuthClient.delete_token(token) / AsyncAuthClient.delete_token(token),
\* called by the application with a token the provider handed out:
\* self._client.delete(url); the response is dropped, an exception of the
\* request passes through
DeleteToken ==
    /\ ~closed
    /\ \E c \in Procs : \E i \in 1..Len(got[c]) : \E out \in DeleteOutcomes :
         /\ got[c][i] # 0
         /\ del_sent' = del_sent \cup {got[c][i]}
         /\ del_outcome' = out
         /\ del_result' = IF out.kind = "exception"
                            THEN Raises("delete_token", out.val, 0,
                                        PlainResponse)
                            ELSE Returns("delete_token", "None")
    /\ UNCHANGED <<now, pvars, svars, rvars, rsvars, cdvars, cvars, closed>>

\* SyncTokenProvider.close / AsyncTokenProvider.aclose / Guacamole.dispose:
\* the http clients are closed and nothing else is done
Close ==
    /\ ~closed
    /\ closed' = TRUE
    /\ UNCHANGED <<now, pvars, svars, rvars, rsvars, cdvars, cvars,
                   del_sent, del_outcome, del_result>>

\* ----------------------------------- guac_client/retry.py: calculate_delay
\* the policies handed to calculate_delay
DelayPolicies ==
    {WithDelays(RetryPolicyDefault, respect, base, max, mult, jitter) :
        respect \in BOOLEAN,
        base \in {0, DefaultBaseDelay},
        max \in {-1, LowMaxDelay, DefaultMaxDelay},
        mult \in {1, DefaultBackoffMultiplier},
        jitter \in {<<0, 0>>, <<DefaultJitterLo, DefaultJitterHi>>}}

DelayCall(attempt, policy, has_response, header) ==
    [attempt |-> attempt, policy |-> policy, has_response |-> has_response,
     header |-> header]
DelayCalls ==
    {DelayCall(attempt, policy, has_response, header) :
        attempt \in 1..MaxAttempts, policy \in DelayPolicies,
        has_response \in BOOLEAN, header \in RetryAfterHeaders}
PlainDelayCall == DelayCall(1, RetryPolicyDefault, FALSE, "missing")
NoDelay == [called |-> FALSE, jitter |-> 0, delay |-> 0]

InitDelay(calls) ==
    /\ cd_call \in calls
    /\ cd_out = NoDelay

\* calculate_delay(attempt, policy, response) is called
CalculateDelay ==
    /\ \E jitter \in JitterDraws(cd_call.policy) :
         cd_out' = [called |-> TRUE, jitter |-> jitter,
                    delay |-> calculate_delay(
                        cd_call.attempt, cd_call.policy,
                        cd_call.has_response,
                        cd_call.header, jitter)]
    /\ UNCHANGED <<now, pvars, svars, rvars, rsvars, lvars, cvars, cd_call>>

\* ------------------------------------------------ guac_api/clients.py
\* an httpx client is named by the order in which it was constructed;
\* 0 stands for None
NoHolderCall == [op |-> "none", kind |-> "returned", val |-> 0,
                 was_open |-> FALSE]
Configured(h) == h.client # 0 \/ h.auth_client # 0
Open(h) ==
    /\ h.client # 0 /\ h.client \notin h.closed
    /\ h.auth_client # 0 /\ h.auth_client \notin h.closed

\* _GuacamoleAPI.__init__
InitHolder ==
    /\ holder = [client |-> 0, auth_client |-> 0, made |-> 0, closed |-> {}]
    /\ h_last = NoHolderCall

\* the body of configure(): the holder after the call, or the holder
\* unchanged when RuntimeError is raised
configure(h) ==
    IF h.client # 0 \/ h.auth_client # 0
      THEN h
      ELSE [h EXCEPT !.client = h.made + 1, !.auth_client = h.made + 2,
                     !.made = h.made + 2]

\* _GuacamoleAPI.configure is called
Configure ==
    /\ holder' = configure(holder)
    /\ h_last' = [op |-> "configure",
                  kind |-> IF Configured(holder) THEN "RuntimeError"
                                                 ELSE "returned",
                  val |-> 0, was_open |-> Open(holder)]
    /\ UNCHANGED <<now, pvars, svars, rvars, rsvars, lvars, cdvars, bvars>>

\* the property _GuacamoleAPI.client is read
GetClient ==
    /\ holder' = IF holder.client = 0 \/ holder.auth_client = 0
                   THEN configure(holder) ELSE holder
    /\ h_last' = [op |-> "client", kind |-> "returned",
                  val |-> holder'.client, was_open |-> Open(holder)]
    /\ UNCHANGED <<now, pvars, svars, rvars, rsvars, lvars, cdvars, bvars>>

\* the property _GuacamoleAPI.auth_client is read
GetAuthClient ==
    /\ holder' = IF holder.client = 0 \/ holder.auth_client = 0
                   THEN configure(holder) ELSE holder
    /\ h_last' = [op |-> "auth_client", kind |-> "returned",
                  val |-> holder'.auth_client, was_open |-> Open(holder)]
    /\ UNCHANGED <<now, pvars, svars, rvars, rsvars, lvars, cdvars, bvars>>

\* GuacamoleClient.close / AsyncGuacamoleClient.aclose
CloseClients ==
    /\ holder' = [holder EXCEPT
                    !.closed = @ \cup ({holder.client, holder.auth_client}
                                          \ {0})]
    /\ h_last' = [op |-> "close", kind |-> "returned", val |-> 0,
                  was_open |-> Open(holder)]
    /\ UNCHANGED <<now, pvars, svars, rvars, rsvars, lvars, cdvars, bvars>>

\* --------------------------------- guac_client/core.py: build_request
\* a dict is the set of its <<key, value>> items; None is NoDict
NoDict == [dict |-> FALSE, items |-> {}]
Dict(items) == [dict |-> TRUE, items |-> items]
SetItem(items, key, value) ==
    {item \in items : item[1] # key} \cup {<<key, value>>}

\* RequestSpec(path=..., params=..., headers=...)
RequestSpec(prms, hdrs) == [params |-> prms, headers |-> hdrs]
RequestSpecs ==
    {RequestSpec(prms, hdrs) :
        prms \in {NoDict, Dict({}), Dict({<<"q", "x">>})},
        hdrs \in {NoDict, Dict({<<"accept", "json">>})}}
PlainRequestSpec == RequestSpec(NoDict, NoDict)
\* the `token` argument: "none" for None, "" for an empty string
BuildTokens == {"none", "", "t1", "t2"}
NoRequest == [built |-> FALSE, token |-> "none", params |-> {},
              headers |-> {}]

InitBuild(specs) ==
    /\ spec \in specs
    /\ spec0 = spec
    /\ request = NoRequest

\* build_request(host, path_prefix, spec, token=tok): `spec.params or {}`
\* is spec.params itself, not a copy, when that dict has entries, and
\* `params['token'] = token` then writes into it
BuildRequest ==
    \E tok \in BuildTokens :
        LET aliased == spec.params.dict /\ spec.params.items # {}
            given == tok \notin {"none", ""}
            prms == IF given
                      THEN SetItem(spec.params.items, "token", tok)
                      ELSE spec.params.items
        IN  /\ spec' = IF aliased /\ given
                         THEN [spec EXCEPT !.params = Dict(prms)]
                         ELSE spec
            /\ request' = [built |-> TRUE, token |-> tok,
                           params |-> prms, headers |-> spec.headers.items]
            /\ UNCHANGED <<now, pvars, svars, rvars, rsvars, lvars, cdvars,
                           hvars, spec0>>

\* ------------------------------------------------------ specifications
\* the token provider shared by NumCallers concurrent get_token callers
Init ==
    /\ now = 0
    /\ InitProvider(Callers, IdleTimeouts, PlainReplies)
    /\ InitSession({0})
    /\ InitRetryLoop({RetryPolicyDefault}, {"GET"})
    /\ InitResponse({PlainResponse})
    /\ InitLifecycle
    /\ InitDelay({PlainDelayCall})
    /\ InitHolder
    /\ InitBuild({PlainRequestSpec})

Next ==
    \/ Tick
    \/ \E c \in Procs : GetTokenStart(c)
    \/ \E c \in Procs : AcquireValid(c)
    \/ \E c \in Procs : AcquireRefresh(c)
    \/ \E c \in Procs : ExchangeOk(c)
    \/ \E c \in Procs : ExchangeFail(c)
    \/ \E c \in Procs : GetTokenReturn(c)

Spec == Init /\ [][Next]_vars

\* the same callers under the scheduling the runtime gives: a caller
\* waiting at `with self._lock` gets the lock if it stays free, an exchange
\* in flight ends (the POST returns or raises), and a caller past the with
\* block returns.  Whether a caller calls get_token at all is left open.
Fairness ==
    \A c \in Callers :
        /\ WF_vars(AcquireValid(c) \/ AcquireRefresh(c))
        /\ WF_vars(ExchangeOk(c) \/ ExchangeFail(c))
        /\ WF_vars(GetTokenReturn(c))

SpecLive == Init /\ [][Next]_vars /\ Fairness

\* NumFlows requests going through GuacamoleSession.auth_flow concurrently
InitFlow ==
    /\ now = 0
    /\ InitProvider(Flows, IdleTimeouts, PlainReplies)
    /\ InitSession({0})
    /\ InitRetryLoop({RetryPolicyDefault}, {"GET"})
    /\ InitResponse({PlainResponse})
    /\ InitLifecycle
    /\ InitDelay({PlainDelayCall})
    /\ InitHolder
    /\ InitBuild({PlainRequestSpec})

NextFlow ==
    \/ Tick
    \/ \E c \in Procs : FlowStart(c)
    \/ \E c \in Procs : AcquireValid(c)
    \/ \E c \in Procs : AcquireRefresh(c)
    \/ \E c \in Procs : ExchangeOk(c)
    \/ \E c \in Procs : ExchangeFail(c)
    \/ \E c \in Procs : Return(c)
    \/ \E c \in Procs : Send1(c)
    \/ \E c \in Procs : Send2(c)

SpecFlow == InitFlow /\ [][NextFlow]_vars

\* one SessionToken store driven by set_token / touch / get_token
InitSessionToken ==
    /\ now = 0
    /\ InitProvider(Callers, {0}, PlainReplies)
    /\ InitSession(IdleTimeouts)
    /\ InitRetryLoop({RetryPolicyDefault}, {"GET"})
    /\ InitResponse({PlainResponse})
    /\ InitLifecycle
    /\ InitDelay({PlainDelayCall})
    /\ InitHolder
    /\ InitBuild({PlainRequestSpec})

NextSessionToken ==
    \/ Tick
    \/ \E tok \in SessionTokens : set_token(tok)
    \/ touch
    \/ get_token

SpecSessionToken == InitSessionToken /\ [][NextSessionToken]_vars

\* get_token calls, one after the other, against a token endpoint that may
\* answer with any status and any authToken field
InitAuth ==
    /\ now = 0
    /\ InitProvider(OneCaller, IdleTimeouts, AuthReplies)
    /\ InitSession({0})
    /\ InitRetryLoop({RetryPolicyDefault}, {"GET"})
    /\ InitResponse({PlainResponse})
    /\ InitLifecycle
    /\ InitDelay({PlainDelayCall})
    /\ InitHolder
    /\ InitBuild({PlainRequestSpec})

NextAuth ==
    \/ Tick
    \/ \E c \in Procs : GetTokenStart(c)
    \/ \E c \in Procs : GetTokenAgain(c)
    \/ \E c \in Procs : AcquireValid(c)
    \/ \E c \in Procs : AcquireRefresh(c)
    \/ \E c \in Procs : ExchangeOk(c)
    \/ \E c \in Procs : ExchangeFail(c)
    \/ \E c \in Procs : GetTokenReturn(c)

SpecAuth == InitAuth /\ [][NextAuth]_vars

\* one call of send_with_retries_sync / send_with_retries_async
InitRetry ==
    /\ now = 0
    /\ InitProvider(Flows, {0}, PlainReplies)
    /\ InitSession({0})
    /\ InitRetryLoop(RetryPolicies, Methods)
    /\ InitResponse({PlainResponse})
    /\ InitLifecycle
    /\ InitDelay({PlainDelayCall})
    /\ InitHolder
    /\ InitBuild({PlainRequestSpec})

NextRetry ==
    \/ RetryCall
    \/ SendDone
    \/ BackoffDone
    \/ Cancel

SpecRetry == InitRetry /\ [][NextRetry]_vars

\* one response handed to the classifier and to the decoders
InitHttp ==
    /\ now = 0
    /\ InitProvider(Flows, {0}, PlainReplies)
    /\ InitSession({0})
    /\ InitRetryLoop({RetryPolicyDefault}, {"GET"})
    /\ InitResponse(HttpResponses)
    /\ InitLifecycle
    /\ InitDelay({PlainDelayCall})
    /\ InitHolder
    /\ InitBuild({PlainRequestSpec})

NextHttp ==
    \/ RaiseForResponse
    \/ DecodeResponse
    \/ GetResponseJson

SpecHttp == InitHttp /\ [][NextHttp]_vars

\* a provider in use (get_token calls), delete_token calls made by the
\* application, and the shutdown of the client
InitShutdown ==
    /\ now = 0
    /\ InitProvider(Flows, IdleTimeouts, PlainReplies)
    /\ InitSession({0})
    /\ InitRetryLoop({RetryPolicyDefault}, {"GET"})
    /\ InitResponse({PlainResponse})
    /\ InitLifecycle
    /\ InitDelay({PlainDelayCall})
    /\ InitHolder
    /\ InitBuild({PlainRequestSpec})

NextShutdown ==
    \/ Tick
    \/ \E c \in Procs : GetTokenStart(c)
    \/ \E c \in Procs : GetTokenAgain(c)
    \/ \E c \in Procs : AcquireValid(c)
    \/ \E c \in Procs : AcquireRefresh(c)
    \/ \E c \in Procs : AcquireRefreshClosed(c)
    \/ \E c \in Procs : ExchangeOk(c)
    \/ \E c \in Procs : ExchangeFail(c)
    \/ \E c \in Procs : GetTokenReturn(c)
    \/ DeleteToken
    \/ Close

SpecShutdown == InitShutdown /\ [][NextShutdown]_vars

\* one call of calculate_delay
InitCalculateDelay ==
    /\ now = 0
    /\ InitProvider(Flows, {0}, PlainReplies)
    /\ InitSession({0})
    /\ InitRetryLoop({RetryPolicyDefault}, {"GET"})
    /\ InitResponse({PlainResponse})
    /\ InitLifecycle
    /\ InitDelay(DelayCalls)
    /\ InitHolder
    /\ InitBuild({PlainRequestSpec})

NextCalculateDelay == CalculateDelay

SpecCalculateDelay == InitCalculateDelay /\ [][NextCalculateDelay]_vars

\* a client holder in use, and requests built from one RequestSpec
InitClient ==
    /\ now = 0
    /\ InitProvider(Flows, {0}, PlainReplies)
    /\ InitSession({0})
    /\ InitRetryLoop({RetryPolicyDefault}, {"GET"})
    /\ InitResponse({PlainResponse})
    /\ InitLifecycle
    /\ InitDelay({PlainDelayCall})
    /\ InitHolder
    /\ InitBuild(RequestSpecs)

NextClient ==
    \/ Configure
    \/ GetClient
    \/ GetAuthClient
    \/ CloseClients
    \/ BuildRequest

SpecClient == InitClient /\ [][NextClient]_vars

\* ---------------------------------------------------------- properties
PastCheck(c) == pc[c] \notin {"idle", "acquire"}
Unexpired(tok) == tok.token # 0 /\ now < tok.created_at + idle_timeout
NoFailure == \A i \in 1..Len(authLog) : authLog[i]

C2_OneExchangeInFlight == Cardinality(Exchanging) <= 1

C2_Witness ==
    \E c, d \in Procs : pc[c] = "exchange" /\ pc[d] = "acquire" /\ req[d] > 0

\* C3 as stated: every caller that requested a token while a refresh was in
\* progress starts no exchange of its own, gets that refresh's token if it
\* succeeded and observes that refresh's failure if it failed.  (Stated for
\* a positive idle_timeout and for the time the refresh's token stays
\* unexpired, so that only the sharing of the outcome is at stake.)
C3_SharedOutcome ==
    \A c \in Procs :
        (/\ idle_timeout > 0
         /\ req[c] > 0 /\ PastCheck(c)
         /\ authLog[req[c]] => (token.token = req[c] /\ Unexpired(token))) =>
            /\ exch[c] = 0
            /\ authLog[req[c]] => (pc[c] = "done" => got[c] = <<req[c]>>)
            /\ ~authLog[req[c]] => pc[c] = "raised"

\* C3 amended: a caller that requested a token while a refresh was in
\* progress waits for the lock and then decides on the store: while the
\* refresh's token is stored and unexpired the caller has started no exchange
\* and gets that token; a failure is raised only to the caller whose own
\* exchange failed; after a failed refresh a waiting caller starts one
\* exchange of its own unless a later refresh has succeeded.
C3_WaitersFollowStore ==
    \A c \in Procs :
        (req[c] > 0 /\ PastCheck(c)) =>
            LET k == req[c] IN
            /\ k <= Len(authLog)
            /\ exch[c] <= 1
            /\ pc[c] = "raised" => exch[c] = 1
            /\ (authLog[k] /\ token.token = k /\ Unexpired(token)) =>
                   /\ exch[c] = 0
                   /\ chk[c] = k
                   /\ pc[c] = "done" => got[c] = <<k>>
            /\ exch[c] = 0 => (chk[c] >= k /\ authLog[chk[c]])
            /\ (\A j \in k..Len(authLog) : ~authLog[j]) => exch[c] = 1

C3_Witness ==
    \E c \in Procs :
        /\ req[c] > 0 /\ pc[c] = "done"
        /\ ~authLog[req[c]]
        /\ exch[c] = 1 /\ got[c] = <<mine[c]>>

\* C4 as stated: after a 401 on the first send the flow performs exactly one
\* authentication exchange and the repeated send carries the newly issued
\* token, not the rejected one.
C4_RefreshAfter401 ==
    \A c \in Procs :
        (phase[c] = 2 /\ pc[c] \in {"send2", "done"}) =>
            /\ exch[c] = 1
            /\ got[c][2] = mine[c]
            /\ got[c][2] # got[c][1]

\* C5: one request through the auth flow is sent at most twice, calls
\* get_token at most once after a response (so starts at most one refresh
\* exchange after a 401) and stops after the second response, a second 401
\* included.
C5_SecondRejectionTerminal ==
    \A c \in Procs :
        /\ sends[c] <= 2
        /\ phase[c] <= 2
        /\ phase[c] = 2 => exch[c] <= 1
        /\ sends[c] = 2 => pc[c] = "done"

C5_Witness ==
    \E c \in Procs :
        sends[c] = 2 /\ resp[c] = 401 /\ pc[c] = "done" /\ exch[c] = 1

\* C6 as stated: a get_token call that finds a non-expired token at its check
\* performs no exchange and returns that token; otherwise it performs exactly
\* one exchange and returns the token that exchange issued.  (Stated for a
\* positive idle_timeout.)
C6_ReturnsCheckedToken ==
    \A c \in Procs :
        (idle_timeout > 0 /\ pc[c] = "done") =>
            /\ chk[c] # 0 => (exch[c] = 0 /\ got[c] = <<chk[c]>>)
            /\ chk[c] = 0 => (exch[c] = 1 /\ got[c] = <<mine[c]>>)

\* C7 as stated: for idle_timeout > 0 a token issued at t0 is reported
\* expired at every time >= t0 + idle_timeout and not expired before, by
\* has_token_expired and by SessionToken._has_expired alike.
C7_ExpiryBoundary ==
    (st_idle > 0 /\ st_token # 0 /\ st_created_at >= 0) =>
        LET due == now >= st_created_at + st_idle IN
        /\ has_token_expired(GuacToken(st_token, st_created_at), st_idle, now)
              <=> due
        /\ has_expired <=> due

\* C8 as stated: with a configured idle_timeout <= 0 no authentication
\* exchange is started once one exchange has succeeded.
C8_NeverExpiresWhenNonPositive ==
    idle_cfg <= 0 =>
        \A i \in 1..Len(authLog) : authLog[i] => AuthStarted = i

\* C9: right after touch() on a store that held a valid token the expiry
\* check reports not expired and get_token returns that same token.
C9_TouchKeepsValid ==
    (st_last.op = "touch" /\ st_last.time = now /\ st_last.valid) =>
        /\ ~has_expired
        /\ (IF has_expired THEN 0 ELSE st_token) = st_last.tok

C9_Witness ==
    /\ st_last.op = "touch" /\ st_last.time = now /\ st_last.valid
    /\ st_last.at < now
    /\ st_created_at = now
    /\ st_idle > 0

\* C10 as stated: touch() on an empty store or on an expired token changes
\* nothing, so an empty store is never reported non-expired and a token that
\* was expired when touch() ran is not returned by a later get_token.
C10_TouchOnlyWhenValid ==
    /\ (st_last.op = "touch" /\ ~st_last.valid) => st_created_at = st_last.at
    /\ st_token = 0 => has_expired
    /\ (st_last.op = "get_token" /\ st_last.stale # 0) =>
           st_last.ret # st_last.stale

RetryEnded == rt_pc \in {"returned", "raised"}
NoHook == rt_policy.should_retry_hook = "none"
\* the last finished send was made on an attempt that is not the final one,
\* and the loop has acted on its result
DecidedNonFinal ==
    /\ rt_pc \in {"sleeping", "returned", "raised"}
    /\ rt_last.kind # "none"
    /\ rt_attempt < rt_policy.max_attempts

\* C11: under a policy with max_attempts >= 1 the loop waits a backoff
\* delay between two consecutive sends and at no other time (a call that
\* makes k sends has made k - 1 delays), and it ends with the outcome of its
\* last send: a response is returned as it is, retryable status or not, and
\* an exception is raised as the original exception.
C11_DelaysBetweenSends ==
    (rt_policy.max_attempts >= 1) =>
        /\ rt_pc = "sending" => rt_delays = rt_sends - 1
        /\ rt_pc = "sleeping" => rt_delays = rt_sends
        /\ RetryEnded =>
             /\ rt_sends >= 1
             /\ rt_delays = rt_sends - 1
             /\ rt_outcome = rt_last
             /\ (rt_pc = "returned") = (rt_last.kind = "response")
             /\ (rt_pc = "raised") = (rt_last.kind = "exception")

C11_Witness ==
    /\ rt_pc = "returned"
    /\ rt_outcome = Response(503)
    /\ rt_outcome.val \in rt_policy.retry_statuses
    /\ Upper(rt_method) \in rt_policy.retry_methods
    /\ rt_sends = rt_policy.max_attempts
    /\ rt_sends = 3
    /\ rt_delays = 2

\* C12: one call never makes more than max_attempts sends, whatever the
\* outcomes of the sends and whatever the custom predicate answers.
C12_AtMostMaxAttempts == rt_sends <= rt_policy.max_attempts

C12_Witness ==
    /\ RetryEnded
    /\ rt_policy.should_retry_hook = "true"
    /\ rt_last = Response(200)
    /\ rt_policy.max_attempts >= 2
    /\ rt_sends = rt_policy.max_attempts

\* C13 as stated: with no custom predicate, a transport failure on a
\* non-final attempt is retried exactly when its kind is in
\* retry_on_exceptions, whatever the request method.
C13_MethodPlaysNoPart ==
    (NoHook /\ DecidedNonFinal /\ rt_last.kind = "exception") =>
        ((rt_pc = "sleeping") =
            (rt_last.val \in rt_policy.retry_on_exceptions))

\* C13 amended: with no custom predicate, a transport failure on a
\* non-final attempt is retried exactly when its kind is in
\* retry_on_exceptions and the upper-cased request method is in
\* retry_methods; otherwise the exception is raised at once.
C13_TransportRetry ==
    (NoHook /\ DecidedNonFinal /\ rt_last.kind = "exception") =>
        /\ (rt_pc = "sleeping") =
              (/\ rt_last.val \in rt_policy.retry_on_exceptions
               /\ Upper(rt_method) \in rt_policy.retry_methods)
        /\ rt_pc # "sleeping" => rt_pc = "raised" /\ rt_outcome = rt_last

C13_Witness ==
    /\ NoHook
    /\ rt_method = "POST"
    /\ rt_last = Raised("ConnectError")
    /\ rt_last.val \in rt_policy.retry_on_exceptions
    /\ rt_policy.retry_methods = DefaultRetryMethods
    /\ rt_attempt = 1
    /\ rt_policy.max_attempts = 3
    /\ rt_pc = "raised"
    /\ rt_sends = 1

\* C14: with no custom predicate, a response on a non-final attempt is
\* retried exactly when the upper-cased request method is in retry_methods
\* and the status is in retry_statuses; under the default policy a 4xx
\* status other than 408 and 429 ends the call with that response.
C14_ResponseRetry ==
    /\ (NoHook /\ DecidedNonFinal /\ rt_last.kind = "response") =>
          ((rt_pc = "sleeping") =
              (/\ Upper(rt_method) \in rt_policy.retry_methods
               /\ rt_last.val \in rt_policy.retry_statuses))
    /\ (/\ rt_policy = RetryPolicyDefault
        /\ rt_last.kind = "response"
        /\ rt_last.val \in (400..499) \ {408, 429}) =>
          /\ rt_pc = "returned"
          /\ rt_outcome = rt_last
          /\ rt_sends = rt_attempt

C14_Witness ==
    /\ rt_policy = RetryPolicyDefault
    /\ rt_method = "get"
    /\ rt_last = Response(404)
    /\ rt_attempt = 2
    /\ rt_sends = 2
    /\ rt_delays = 1
    /\ rt_pc = "returned"

C16_Classifier ==
    (rs_result.op = "raise_for_response") =>
        LET st == rs_response.status IN
        IF st \in 200..299
          THEN rs_result.kind = "returned"
          ELSE /\ rs_result.kind = "raised"
               /\ rs_result.status = st
               /\ rs_result.response = rs_response
               /\ st = 401 => rs_result.cls = "AuthError"
               /\ st = 403 => rs_result.cls = "PermissionError"
               /\ st = 404 => rs_result.cls = "NotFoundError"
               /\ st \in {408, 429} => rs_result.cls = "RateLimitError"
               /\ st \in 500..599 => rs_result.cls = "ServerError"
               /\ st \notin {401, 403, 404, 408, 429} \cup (500..599)
                     => rs_result.cls = "HttpError"

C16_Witness ==
    /\ rs_result.op = "raise_for_response"
    /\ rs_response.status = 500
    /\ rs_result.kind = "raised"
    /\ rs_result.cls = "ServerError"
    /\ rs_result.response = rs_response

IsCancellation(r) == r.kind = "exception" /\ r.val = "CancelledError"

\* C17: a cancellation that arrives while the loop is suspended in a send
\* or in a backoff delay ends the call in that very step: no further send and
\* no further delay is started, the cancellation is never recorded as the
\* result of a send (so it is never judged as a retryable transport
\* failure), and the caller gets the cancellation itself.
C17_CancelAborts ==
    [][(\/ rt_pc' = "cancelled"
        \/ IsCancellation(rt_last')
        \/ IsCancellation(rt_outcome'))
        => /\ rt_pc \in {"sending", "sleeping"}
           /\ rt_pc' = "cancelled"
           /\ rt_outcome' = Raised("CancelledError")
           /\ rt_sends' = rt_sends
           /\ rt_delays' = rt_delays
           /\ rt_last' = rt_last
           /\ rt_last_exc' = rt_last_exc
           /\ ~IsCancellation(rt_last_exc')]_vars

C17_Witness ==
    /\ rt_pc = "cancelled"
    /\ rt_outcome = Raised("CancelledError")
    /\ rt_delays = 1
    /\ rt_sends = 1
    /\ rt_last = Raised("ConnectError")

\* C18 as stated: remote invalidation of a token is best-effort: for every
\* outcome of the DELETE request, a transport failure or an error status
\* included, delete_token returns normally and propagates no failure.
C18_BestEffortDelete ==
    (idle_timeout > 0 /\ del_result.op = "delete_token")
        => del_result.kind = "returned"

\* C19 as stated: whenever the owning client is shut down while a token is
\* stored, a remote invalidation of that token is part of the shutdown (so a
\* DELETE for the stored token has been sent by the time the client is
\* closed).
C19_RevokedOnShutdown ==
    (closed /\ Unexpired(token)) => token.token \in del_sent

\* C20 as stated: a response with a success status whose body cannot be
\* decoded surfaces as DecodeError, never as another exception type and never
\* as a returned value.
C20_DecodeError ==
    (/\ rs_result.op \in {"decode_response", "get_response_json"}
     /\ rs_response.status \in 200..299
     /\ rs_response.status # 204
     /\ rs_response.ctype = "json"
     /\ rs_response.body = "garbage")
        => rs_result.kind = "raised" /\ rs_result.cls = "DecodeError"

\* C21: with a custom predicate configured, the retry decision on a
\* non-final attempt is the predicate's return value whenever it returns
\* (overriding the computed default in both directions) and the computed
\* default whenever it raises; the predicate's exception never leaves the
\* loop: the call still ends with the result of its last send.
C21_HookOverrides ==
    (~NoHook /\ DecidedNonFinal) =>
        LET computed ==
                /\ IF rt_last.kind = "exception"
                     THEN rt_last.val \in rt_policy.retry_on_exceptions
                     ELSE rt_last.val \in rt_policy.retry_statuses
                /\ Upper(rt_method) \in rt_policy.retry_methods
            retried == rt_pc = "sleeping"
        IN  /\ rt_policy.should_retry_hook = "true" => retried
            /\ rt_policy.should_retry_hook = "false" => ~retried
            /\ rt_policy.should_retry_hook = "raises" => retried = computed
            /\ ~retried => rt_outcome = rt_last

C21_Witness ==
    /\ rt_policy.should_retry_hook = "true"
    /\ rt_policy.retry_statuses = DefaultRetryStatuses
    /\ rt_last = Response(200)
    /\ rt_attempt = 1
    /\ rt_pc = "sleeping"

\* what a calculate_delay call was given, and the un-jittered backoff
\* min(max_delay, base_delay * backoff_multiplier^(attempt - 1)) for it
HintUsable ==
    /\ cd_call.has_response
    /\ cd_call.policy.respect_retry_after
    /\ FloatParses(cd_call.header)
Backoff(policy, attempt) ==
    Min(policy.max_delay,
        policy.base_delay * Pow(policy.backoff_multiplier, attempt - 1))
InJitterRange(policy, jitter) ==
    /\ policy.jitter[1] <= jitter
    /\ policy.jitter[1] < policy.jitter[2] => jitter < policy.jitter[2]

\* C22: for a response with a parseable Retry-After hint h and a policy
\* with respect_retry_after set, the delay is min(max_delay, h + j) with j
\* in the jitter range [lo, hi); for h = 2.0 s, jitter [0, 0.25) and
\* max_delay >= 2.25 s it lies in [2.0, 2.25) s.  With respect_retry_after
\* false, or with no response (transport failure), the hint plays no part:
\* the delay is the backoff delay plus jitter.
C22_RetryAfterDelay ==
    cd_out.called =>
        LET policy == cd_call.policy
            hint == Max(0, FloatOf(cd_call.header))
        IN  /\ InJitterRange(policy, cd_out.jitter)
            /\ HintUsable =>
                 cd_out.delay = Min(policy.max_delay, hint + cd_out.jitter)
            /\ (/\ HintUsable
                /\ cd_call.header = "2"
                /\ policy.jitter = <<0, 2>>
                /\ policy.max_delay >= 18) =>
                 (16 <= cd_out.delay /\ cd_out.delay < 18)
            /\ (~policy.respect_retry_after \/ ~cd_call.has_response) =>
                 cd_out.delay =
                    Backoff(policy, cd_call.attempt) + cd_out.jitter

C22_Witness ==
    /\ cd_out.called
    /\ HintUsable
    /\ cd_call.header = "2"
    /\ cd_call.policy = RetryPolicyDefault
    /\ cd_out.jitter = 1
    /\ cd_out.delay = 17

\* C23: when no usable hint applies, the delay slept after attempt k is
\* min(max_delay, base_delay * backoff_multiplier^(k - 1)) + j with j in
\* the jitter range: the un-jittered delays of one call are base_delay,
\* base_delay * m, ... each capped at max_delay.
C23_ExponentialBackoff ==
    (/\ rt_pc = "sleeping"
     /\ \/ ~rt_policy.respect_retry_after
        \/ rt_last.kind = "exception"
        \/ rt_hdr = "missing") =>
        /\ rt_delay = Backoff(rt_policy, rt_attempt) + rt_jitter
        /\ InJitterRange(rt_policy, rt_jitter)
        /\ rt_delays = rt_attempt

C23_Witness ==
    /\ rt_pc = "sleeping"
    /\ rt_last = Raised("ConnectError")
    /\ rt_attempt = 2
    /\ rt_policy.max_delay = LowMaxDelay
    /\ rt_jitter = 1
    /\ rt_delay = LowMaxDelay + 1

\* C24: a missing, empty or unparseable Retry-After header is ignored:
\* extract_retry_after_seconds yields no duration and the delay is exactly
\* the backoff delay of that attempt plus jitter, as for a call with no
\* response at all.
C24_MalformedHintIgnored ==
    (cd_out.called /\ cd_call.header \in {"missing", "", "abc"}) =>
        /\ ~extract_retry_after_seconds(cd_call.header).some
        /\ cd_out.delay =
              Backoff(cd_call.policy, cd_call.attempt) + cd_out.jitter

C24_Witness ==
    /\ cd_out.called
    /\ cd_call.header = "abc"
    /\ cd_call.has_response
    /\ cd_call.policy = RetryPolicyDefault
    /\ cd_call.attempt = 2
    /\ cd_out.delay = 5

\* C25 as stated: every request the authenticating flow puts on the wire
\* carries exactly one `token` query parameter, whose value is the token
\* most recently obtained from the token store; on the first send and on the
\* send repeated after a 401.
C25_OneTokenParam ==
    \A c \in Procs :
        pc[c] \in {"send1", "send2"} =>
            /\ Len(params[c]) = 1
            /\ params[c][1] = got[c][Len(got[c])]

\* C26: every caller of get_token eventually returns a token or raises,
\* provided each authentication exchange ends: the lock is released on
\* every path, the raising one included, so a failed refresh never leaves
\* the other callers blocked and a later caller can authenticate again.
C26_GetTokenEnds ==
    \A c \in Callers :
        (pc[c] = "acquire") ~> (pc[c] \in {"done", "raised"})

C26_Witness ==
    \E c, d \in Procs :
        /\ pc[c] = "raised"
        /\ req[d] > 0
        /\ pc[d] = "done"
        /\ mine[d] > 0
        /\ got[d] = <<mine[d]>>
        /\ lock = 0

\* C27 as stated: for every value of max_attempts, 0 included, a call to the
\* retry loop makes at least one send and ends by returning a response or
\* raising the exception of a send; it never ends with the failure of the
\* statements after the while loop.
C27_AtLeastOneSend ==
    RetryEnded =>
        /\ rt_sends >= 1
        /\ rt_last.kind # "none"
        /\ rt_outcome.kind = "exception" =>
              rt_outcome.val \notin {"AssertionError", "TypeError"}

SaneDelayPolicy(policy) ==
    /\ policy.base_delay >= 0
    /\ policy.backoff_multiplier >= 1
    /\ 0 <= policy.jitter[1]
    /\ policy.jitter[1] <= policy.jitter[2]

\* C28 as stated: for a policy with base_delay >= 0, backoff_multiplier >= 1
\* and a jitter range 0 <= lo <= hi, every computed delay is >= 0; on the
\* Retry-After path it is at most max_delay, on the exponential path at most
\* max_delay + hi.
C28_DelayBounds ==
    (cd_out.called /\ SaneDelayPolicy(cd_call.policy)) =>
        /\ cd_out.delay >= 0
        /\ HintUsable => cd_out.delay <= cd_call.policy.max_delay
        /\ ~HintUsable =>
              cd_out.delay <= cd_call.policy.max_delay
                                + cd_call.policy.jitter[2]

\* C28 amended: the same, for policies that also have max_delay >= 0 (a
\* negative max_delay makes min(max_delay, ...) negative on both paths).
C28_DelayBoundsWithCap ==
    (/\ cd_out.called
     /\ SaneDelayPolicy(cd_call.policy)
     /\ cd_call.policy.max_delay >= 0) =>
        /\ cd_out.delay >= 0
        /\ HintUsable => cd_out.delay <= cd_call.policy.max_delay
        /\ ~HintUsable =>
              cd_out.delay <= cd_call.policy.max_delay
                                + cd_call.policy.jitter[2]

\* the jitter added after the cap has pushed the delay above max_delay
C28_Witness ==
    /\ cd_out.called
    /\ SaneDelayPolicy(cd_call.policy)
    /\ ~HintUsable
    /\ cd_call.policy.max_delay = LowMaxDelay
    /\ cd_out.delay > cd_call.policy.max_delay

\* C29 as stated: build_request leaves the RequestSpec it is given
\* unchanged: after any sequence of calls spec.params and spec.headers hold
\* the entries they had, so a token passed to one call never appears in a
\* request built by a later call that passes no token or another token.
C29_SpecUnchanged ==
    /\ spec = spec0
    /\ request.built =>
         \A item \in request.params :
            item[1] = "token" =>
                (item[2] = request.token \/ item \in spec0.params.items)

\* C30 as stated: configure() raises RuntimeError and leaves both clients
\* unchanged when clients are configured and open; after close()/aclose()
\* the clients count as closed, so a following configure() succeeds and the
\* client / auth_client properties never hand out a closed client.
C30_ClosedClientsReplaced ==
    /\ (h_last.op = "configure" /\ h_last.kind = "RuntimeError")
          => h_last.was_open
    /\ (h_last.op = "configure" /\ h_last.was_open)
          => h_last.kind = "RuntimeError"
    /\ h_last.op \in {"client", "auth_client"}
          => (h_last.val # 0 /\ h_last.val \notin holder.closed)

TypeOK ==
    /\ now \in 0..MaxTime
    /\ lock \in 0..NumCallers + NumFlows

====
